---- MODULE Spec2Model ----
(***************************************************************************)
(* State-machine model of cinema_bot.py: the per-user session dictionary   *)
(* user_data, the aiogram FSM context (state + data), the messages that    *)
(* are displayed in the user's private chat, and the handler coroutines   *)
(* that the dispatcher runs as concurrent asyncio tasks.  A handler is    *)
(* cut into steps at the awaits that really suspend (HTTP fetches,        *)
(* aiosqlite, Bot API calls); MemoryStorage calls do not suspend.         *)
(* One user in a private chat is modelled: user_data and the FSM context  *)
(* are keyed by that user's id.                                           *)
(***************************************************************************)
EXTENDS Integers, FiniteSets, Sequences, TLC

VARIABLES user_data, sessions, nsess, fsm, chat, nextId, tasks, updates, last, faults,
          FILMS_TO_SHOW

vars == <<user_data, sessions, nsess, fsm, chat, nextId, tasks, updates, last, faults,
         FILMS_TO_SHOW>>

----------------------------------------------------------------------------
(* Bounds of the model *)

\* handler coroutines that may be in flight at once
MaxTasks == 2
\* message ids the chat hands out
MaxMsgs == 4
\* sessions (search results dictionaries) ever created
MaxSessions == 2
\* updates (user inputs) delivered in one behaviour
MaxUpdates == 6
\* longest result list the catalog returns
MaxLen == 5
\* transport failures injected in one behaviour
MaxFaults == 1
\* largest configured length of the list view
MaxCap == 6

Tasks == 1..MaxTasks
MsgIds == 1..MaxMsgs
SessIds == 1..MaxSessions

\* lengths of the list parse_zona_results may return
ResultLens == {0, 2, MaxLen}
\* numbers a user may type (int(message.text)); 0 and MaxLen + 1 are out of range
TypedNumbers == 0..(MaxLen + 1)

----------------------------------------------------------------------------
(* Values *)

None == 0

\* line 36: FILMS_TO_SHOW when the environment does not set it
DefaultFilmsToShow == 10

\* values of FILMS_TO_SHOW the environment may configure: a count
Caps == (0..MaxCap) \cup {DefaultFilmsToShow}

NoKeyboard == [prev |-> FALSE, next |-> FALSE, list |-> FALSE]

NoMessage == [kind |-> "none", sess |-> None, idx |-> 0, kb |-> NoKeyboard]

NoSession == [n |-> 0, current_index |-> 0, msg_id |-> None, list_msg_id |-> None, kp |-> {}]

EmptyFsm == [state |-> "None", user_id |-> FALSE, confirm_msg_id |-> None, chosen_index |-> -1]

Idle == [h |-> "none", pc |-> "idle", data |-> None, old |-> None, arg |-> 0, m |-> None,
         ri |-> 0, cm |-> None, kb |-> NoKeyboard]

NoLast == [h |-> "none", how |-> "none"]

\* results[k] of a Python list of length n: negative k counts from the end
IndexOK(n, k) == -n <= k /\ k < n

ListIndex(n, k) == IF k < 0 THEN k + n ELSE k

----------------------------------------------------------------------------
(* Bot API calls: the outcomes the transport can report *)

\* a call that would succeed may still fail while faults are left to inject
Outcomes(works) == IF works /\ faults > 0 THEN {TRUE, FALSE} ELSE {works}

Charge(works, ok) == faults' = IF works /\ ~ok THEN faults - 1 ELSE faults

\* bot.delete_message: fails on a message that is gone
delete_message(m) == Outcomes(chat[m].kind # "none")

\* bot.edit_message_media: fails on a message that is gone and on an edit
\* that changes nothing ("message is not modified")
edit_message_media(m, content) == Outcomes(chat[m].kind # "none" /\ chat[m] # content)

\* bot.send_photo, message.answer, message.answer_photo: an id is left to
\* hand out
send_message == Outcomes(TRUE)

\* safe_delete(chat_id, msg_id) for a msg_id that is set: the failure of
\* delete_message is swallowed
safe_delete(m) ==
    \E ok \in delete_message(m) :
       /\ chat' = IF ok THEN [chat EXCEPT ![m] = NoMessage] ELSE chat
       /\ Charge(chat[m].kind # "none", ok)

----------------------------------------------------------------------------
(* View models *)

\* build_keyboard(user_id, total): current is read from user_data[user_id]
build_keyboard(current, total) ==
    [prev |-> current > 0, next |-> current < total - 1, list |-> total > 3]

FilmView(s, i, kb) == [kind |-> "film", sess |-> s, idx |-> i, kb |-> kb]

FrozenView(s, i) == [kind |-> "frozen", sess |-> s, idx |-> i, kb |-> NoKeyboard]

\* lines 315-324 without their remainder line
list_text_no_more(n, cap) ==
    LET shown == IF cap >= 0 THEN (IF n < cap THEN n ELSE cap)
                 ELSE (IF n + cap > 0 THEN n + cap ELSE 0)
    IN  [lines |-> [i \in 1..shown |-> [num |-> i, rec |-> i - 1]], more |-> None]

\* lines 314-324: the text of the list view of n records: the numbered
\* lines of enumerate(results[:cap], 1), each naming the record at its
\* place in results, and the count of the remainder line (None: no line)
list_text(n, cap) ==
    LET shown == IF cap >= 0 THEN (IF n < cap THEN n ELSE cap)
                 ELSE (IF n + cap > 0 THEN n + cap ELSE 0)
    IN  [lines |-> [i \in 1..shown |-> [num |-> i, rec |-> i - 1]],
         more |-> IF n > cap THEN n - cap ELSE None]

ListView(s) == [kind |-> "list", sess |-> s, idx |-> 0, kb |-> NoKeyboard,
                text |-> list_text(sessions[s].n, FILMS_TO_SHOW)]

ConfirmView(s, i) == [kind |-> "confirm", sess |-> s, idx |-> i, kb |-> NoKeyboard]

----------------------------------------------------------------------------
(* Task bookkeeping *)

Busy == {t \in Tasks : tasks[t].pc # "idle"}

\* a new update is dispatched to the first free task
CanStart(t) ==
    /\ tasks[t].pc = "idle"
    /\ \A u \in Tasks : u < t => tasks[u].pc # "idle"
    /\ updates < MaxUpdates

Final == {"ok", "stale", "no_results", "out_of_range", "invalid",
          "KeyError", "IndexError", "TransportError"}

\* the task record r is where handler t stands after a step: a final pc
\* ends the coroutine
Settle(t, r) ==
    IF r.pc \in Final
    THEN /\ tasks' = [tasks EXCEPT ![t] = Idle]
         /\ last' = [h |-> r.h, how |-> r.pc]
    ELSE /\ tasks' = [tasks EXCEPT ![t] = r]
         /\ last' = last

At(t, h, pc) == tasks[t].h = h /\ tasks[t].pc = pc

\* a message handler registered without its state filter
StateFilterAny(state) == TRUE

\* StateFilter(None), ChooseFilm.waiting_for_number: the filter of a message
\* handler on the FSM state of the user
StateFilter(state) == fsm.state = state

----------------------------------------------------------------------------
Init ==
    /\ user_data = None
    /\ sessions = [s \in SessIds |-> NoSession]
    /\ nsess = 0
    /\ fsm = EmptyFsm
    /\ chat = [m \in MsgIds |-> NoMessage]
    /\ nextId = 1
    /\ tasks = [t \in Tasks |-> Idle]
    /\ updates = 0
    /\ last = NoLast
    /\ faults \in 0..MaxFaults
    /\ FILMS_TO_SHOW \in Caps

----------------------------------------------------------------------------
(* show_current_film(message, user_id), lines 222-305 *)

\* lines 238-244, run without suspension by the caller: data and result
\* are read, then the coroutine suspends at the ratings fetch (when the
\* record has no cached "kp") or at the stats write
show_current_film(r, ss, ud) ==
    IF ud = None THEN [r EXCEPT !.pc = "KeyError"]
    ELSE IF ~IndexOK(ss[ud].n, ss[ud].current_index)
         THEN [r EXCEPT !.pc = "IndexError", !.data = ud]
         ELSE LET i == ListIndex(ss[ud].n, ss[ud].current_index)
              IN  [r EXCEPT !.data = ud, !.ri = i, !.old = None, !.m = None, !.cm = None,
                            !.pc = IF i \in ss[ud].kp THEN "sf_db" ELSE "sf_fetch"]

\* line 244: get_film_ratings returned, the ratings are stored on the record
show_current_film_ratings(t) ==
    /\ tasks[t].pc = "sf_fetch"
    /\ sessions' = [sessions EXCEPT ![tasks[t].data].kp = @ \cup {tasks[t].ri}]
    /\ Settle(t, [tasks[t] EXCEPT !.pc = "sf_db"])
    /\ UNCHANGED <<user_data, nsess, fsm, chat, nextId, updates, faults, FILMS_TO_SHOW>>

\* lines 248-293: the stats write returned; build_keyboard reads
\* user_data[user_id] again, msg_id is read from data, the edit is issued
show_current_film_keyboard(t) ==
    /\ tasks[t].pc = "sf_db"
    /\ LET r == tasks[t]
           total == sessions[r.data].n
       IN  IF user_data = None
           THEN Settle(t, [r EXCEPT !.pc = "KeyError"])
           ELSE IF ~IndexOK(sessions[user_data].n, sessions[user_data].current_index)
           THEN Settle(t, [r EXCEPT !.pc = "IndexError"])
           ELSE LET kb == build_keyboard(sessions[user_data].current_index, total)
                    msg_id == sessions[r.data].msg_id
                IN  Settle(t, [r EXCEPT !.kb = kb, !.m = msg_id,
                                        !.pc = IF msg_id # None THEN "sf_edit" ELSE "sf_send"])
    /\ UNCHANGED <<user_data, sessions, nsess, fsm, chat, nextId, updates, faults, FILMS_TO_SHOW>>

\* lines 284-295: edit_message_media returned or raised
show_current_film_edit(t) ==
    /\ tasks[t].pc = "sf_edit"
    /\ LET r == tasks[t]
           view == FilmView(r.data, r.ri, r.kb)
       IN  \E ok \in edit_message_media(r.m, view) :
              /\ Charge(chat[r.m].kind # "none" /\ chat[r.m] # view, ok)
              /\ IF ok
                 THEN /\ chat' = [chat EXCEPT ![r.m] = view]
                      /\ Settle(t, [r EXCEPT !.pc = "ok"])
                 ELSE /\ chat' = chat
                      /\ Settle(t, [r EXCEPT !.pc = "sf_del"])
    /\ UNCHANGED <<user_data, sessions, nsess, fsm, nextId, updates, FILMS_TO_SHOW>>

\* lines 295-296: safe_delete returned, data["msg_id"] = None
show_current_film_delete(t) ==
    /\ tasks[t].pc = "sf_del"
    /\ LET r == tasks[t]
       IN  /\ safe_delete(r.m)
           /\ sessions' = [sessions EXCEPT ![r.data].msg_id = None]
           /\ Settle(t, [r EXCEPT !.pc = "sf_send", !.m = None])
    /\ UNCHANGED <<user_data, nsess, fsm, nextId, updates, FILMS_TO_SHOW>>

\* lines 298-305: send_photo returned or raised
show_current_film_send(t) ==
    /\ tasks[t].pc = "sf_send"
    /\ nextId <= MaxMsgs
    /\ LET r == tasks[t]
       IN  \E ok \in send_message :
              /\ Charge(TRUE, ok)
              /\ IF ok
                 THEN /\ chat' = [chat EXCEPT ![nextId] = FilmView(r.data, r.ri, r.kb)]
                      /\ nextId' = nextId + 1
                      /\ sessions' = [sessions EXCEPT ![r.data].msg_id = nextId]
                      /\ Settle(t, [r EXCEPT !.pc = "ok"])
                 ELSE /\ UNCHANGED <<chat, nextId, sessions>>
                      /\ Settle(t, [r EXCEPT !.pc = "TransportError"])
    /\ UNCHANGED <<user_data, nsess, fsm, updates, FILMS_TO_SHOW>>

----------------------------------------------------------------------------
(* handle_search(message, state), lines 466-537 *)

\* line 509: del user_data[user_id], then the coroutine suspends at the
\* history write, the "searching" notice and the catalog fetch
DelUserData(t, r) ==
    IF user_data = None
    THEN /\ user_data' = user_data
         /\ Settle(t, [r EXCEPT !.pc = "KeyError"])
    ELSE /\ user_data' = None
         /\ Settle(t, [r EXCEPT !.pc = "hs_fetch", !.m = None])

\* lines 480-507 up to the first suspension: old["msg_id"] is read; the
\* frozen view is built from old["results"][old["current_index"]]
FreezeOld(t, r) ==
    LET old == sessions[r.old]
    IN  IF old.msg_id = None
        THEN DelUserData(t, r)
        ELSE /\ user_data' = user_data
             /\ IF IndexOK(old.n, old.current_index)
                THEN Settle(t, [r EXCEPT !.pc = "hs_edit", !.m = old.msg_id,
                                         !.ri = ListIndex(old.n, old.current_index)])
                ELSE Settle(t, [r EXCEPT !.pc = "hs_del_old", !.m = old.msg_id])

\* lines 466-478: the text arrived with no FSM state set
handle_search(t) ==
    /\ CanStart(t)
    /\ StateFilter("None")
    /\ nsess + Cardinality({u \in Tasks : tasks[u].h = "handle_search"}) < MaxSessions
    /\ updates' = updates + 1
    /\ fsm' = EmptyFsm
    /\ LET r == [Idle EXCEPT !.h = "handle_search", !.old = user_data]
       IN  IF user_data = None
           THEN /\ user_data' = user_data
                /\ Settle(t, [r EXCEPT !.pc = "hs_fetch"])
           ELSE IF sessions[user_data].list_msg_id # None
           THEN /\ user_data' = user_data
                /\ Settle(t, [r EXCEPT !.pc = "hs_del_list",
                                       !.m = sessions[user_data].list_msg_id])
           ELSE FreezeOld(t, r)
    /\ UNCHANGED <<sessions, nsess, chat, nextId, faults, FILMS_TO_SHOW>>

\* line 478: safe_delete of the old list view returned
handle_search_list_deleted(t) ==
    /\ At(t, "handle_search", "hs_del_list")
    /\ safe_delete(tasks[t].m)
    /\ FreezeOld(t, tasks[t])
    /\ UNCHANGED <<sessions, nsess, fsm, nextId, updates, FILMS_TO_SHOW>>

\* lines 496-509: the edit to the frozen view returned or raised
handle_search_frozen(t) ==
    /\ At(t, "handle_search", "hs_edit")
    /\ LET r == tasks[t]
           view == FrozenView(r.old, r.ri)
       IN  \E ok \in edit_message_media(r.m, view) :
              /\ Charge(chat[r.m].kind # "none" /\ chat[r.m] # view, ok)
              /\ IF ok
                 THEN /\ chat' = [chat EXCEPT ![r.m] = view]
                      /\ DelUserData(t, r)
                 ELSE /\ chat' = chat
                      /\ IF sessions[r.old].msg_id = None
                         THEN DelUserData(t, r)
                         ELSE /\ user_data' = user_data
                              /\ Settle(t, [r EXCEPT !.pc = "hs_del_old",
                                                     !.m = sessions[r.old].msg_id])
    /\ UNCHANGED <<sessions, nsess, fsm, nextId, updates, FILMS_TO_SHOW>>

\* lines 507-509: safe_delete of the old primary view returned
handle_search_old_deleted(t) ==
    /\ At(t, "handle_search", "hs_del_old")
    /\ safe_delete(tasks[t].m)
    /\ DelUserData(t, tasks[t])
    /\ UNCHANGED <<sessions, nsess, fsm, nextId, updates, FILMS_TO_SHOW>>

\* line 523 without its guard: an empty list is taken for results
NoResultsMutant(n) == FALSE

\* line 523: if not results
NoResults(n) == n = 0

\* lines 511-537: the catalog answered with n records
handle_search_results(t) ==
    /\ At(t, "handle_search", "hs_fetch")
    /\ \E n \in ResultLens, ok \in send_message :
          LET r == [tasks[t] EXCEPT !.arg = n]
              new == nsess + 1
              ss == [sessions EXCEPT ![new] = [NoSession EXCEPT !.n = n]]
          IN  /\ Charge(TRUE, ok)
              /\ IF ~ok
                 THEN /\ UNCHANGED <<user_data, sessions, nsess>>
                      /\ Settle(t, [r EXCEPT !.pc = "TransportError"])
                 ELSE IF NoResults(n)
                 THEN /\ UNCHANGED <<user_data, sessions, nsess>>
                      /\ Settle(t, [r EXCEPT !.pc = "no_results"])
                 ELSE /\ sessions' = ss
                      /\ nsess' = new
                      /\ user_data' = new
                      /\ Settle(t, show_current_film(r, ss, new))
    /\ UNCHANGED <<fsm, chat, nextId, updates, FILMS_TO_SHOW>>

----------------------------------------------------------------------------
(* handle_navigation(callback, callback_data, state), lines 540-576 *)

\* a button the user can press: a displayed single-record view carries it
Button(m, action) ==
    /\ chat[m].kind = "film"
    /\ \/ action = "prev" /\ chat[m].kb.prev
       \/ action = "next" /\ chat[m].kb.next
       \/ action = "list" /\ chat[m].kb.list

\* lines 554-559: what "prev" and "next" do to data["current_index"]
Step(action, current) == IF action = "prev" THEN current - 1 ELSE current + 1

\* lines 547-550: no session for the user
handle_navigation_stale == [Idle EXCEPT !.h = "handle_navigation", !.pc = "stale"]

\* lines 547-559 and 576: the callback of a "prev" or "next" button
Move(t, action) ==
    /\ CanStart(t)
    /\ \E m \in MsgIds : Button(m, action)
    /\ IF user_data = None
       THEN /\ Settle(t, handle_navigation_stale)
            /\ sessions' = sessions
       ELSE LET ss == [sessions EXCEPT ![user_data].current_index = Step(action, @)]
            IN  /\ sessions' = ss
                /\ Settle(t, show_current_film(
                                [Idle EXCEPT !.h = "handle_navigation"], ss, user_data))
    /\ updates' = updates + 1
    /\ UNCHANGED <<user_data, nsess, fsm, chat, nextId, faults, FILMS_TO_SHOW>>

handle_navigation_move(t) == \E action \in {"prev", "next"} : Move(t, action)

\* lines 561-562: "list", suspended at callback.answer()
handle_navigation_list(t) ==
    /\ CanStart(t)
    /\ \E m \in MsgIds : Button(m, "list")
    /\ IF user_data = None
       THEN Settle(t, handle_navigation_stale)
       ELSE Settle(t, [Idle EXCEPT !.h = "show_list_variants", !.pc = "sl_answer",
                                   !.data = user_data])
    /\ updates' = updates + 1
    /\ UNCHANGED <<user_data, sessions, nsess, fsm, chat, nextId, faults, FILMS_TO_SHOW>>

\* lines 566-567: "close_list", pressed on a displayed list view
handle_navigation_close(t) ==
    /\ CanStart(t)
    /\ \E m \in MsgIds : chat[m].kind = "list"
    /\ IF user_data = None
       THEN Settle(t, handle_navigation_stale)
       ELSE Settle(t, [Idle EXCEPT !.h = "handle_navigation", !.pc = "nc_answer",
                                   !.data = user_data])
    /\ updates' = updates + 1
    /\ UNCHANGED <<user_data, sessions, nsess, fsm, chat, nextId, faults, FILMS_TO_SHOW>>

\* lines 567-574: callback.answer() returned; the list view is deleted when
\* data has one, otherwise the FSM state is cleared at once
handle_navigation_close_answered(t) ==
    /\ At(t, "handle_navigation", "nc_answer")
    /\ LET r == tasks[t]
       IN  IF sessions[r.data].list_msg_id # None
           THEN /\ Settle(t, [r EXCEPT !.pc = "nc_del", !.m = sessions[r.data].list_msg_id])
                /\ fsm' = fsm
           ELSE /\ Settle(t, [r EXCEPT !.pc = "ok"])
                /\ fsm' = EmptyFsm
    /\ UNCHANGED <<user_data, sessions, nsess, chat, nextId, updates, faults, FILMS_TO_SHOW>>

\* lines 570-574: safe_delete returned
handle_navigation_close_deleted(t) ==
    /\ At(t, "handle_navigation", "nc_del")
    /\ LET r == tasks[t]
       IN  /\ safe_delete(r.m)
           /\ sessions' = [sessions EXCEPT ![r.data].list_msg_id = None]
           /\ fsm' = EmptyFsm
           /\ Settle(t, [r EXCEPT !.pc = "ok"])
    /\ UNCHANGED <<user_data, nsess, nextId, updates, FILMS_TO_SHOW>>

----------------------------------------------------------------------------
(* show_list_variants(message, user_id, state), lines 308-341 *)

\* lines 312-333: callback.answer() returned; data = user_data[user_id] is
\* read again, the text is built, the previous list view is deleted
show_list_variants(t) ==
    /\ At(t, "show_list_variants", "sl_answer")
    /\ LET r == tasks[t]
       IN  IF user_data = None
           THEN Settle(t, [r EXCEPT !.pc = "KeyError"])
           ELSE IF sessions[user_data].list_msg_id # None
           THEN Settle(t, [r EXCEPT !.pc = "sl_del", !.data = user_data,
                                    !.m = sessions[user_data].list_msg_id])
           ELSE Settle(t, [r EXCEPT !.pc = "sl_send", !.data = user_data])
    /\ UNCHANGED <<user_data, sessions, nsess, fsm, chat, nextId, updates, faults, FILMS_TO_SHOW>>

\* line 333: safe_delete returned
show_list_variants_deleted(t) ==
    /\ At(t, "show_list_variants", "sl_del")
    /\ safe_delete(tasks[t].m)
    /\ Settle(t, [tasks[t] EXCEPT !.pc = "sl_send", !.m = None])
    /\ UNCHANGED <<user_data, sessions, nsess, fsm, nextId, updates, FILMS_TO_SHOW>>

\* lines 335-341: the list view was sent (or the send raised)
show_list_variants_sent(t) ==
    /\ At(t, "show_list_variants", "sl_send")
    /\ nextId <= MaxMsgs
    /\ LET r == tasks[t]
       IN  \E ok \in send_message :
              /\ Charge(TRUE, ok)
              /\ IF ok
                 THEN /\ chat' = [chat EXCEPT ![nextId] = ListView(r.data)]
                      /\ nextId' = nextId + 1
                      /\ sessions' = [sessions EXCEPT ![r.data].list_msg_id = nextId]
                      /\ fsm' = [EmptyFsm EXCEPT !.state = "waiting_for_number",
                                                 !.user_id = TRUE]
                      /\ Settle(t, [r EXCEPT !.pc = "ok"])
                 ELSE /\ UNCHANGED <<chat, nextId, sessions, fsm>>
                      /\ Settle(t, [r EXCEPT !.pc = "TransportError"])
    /\ UNCHANGED <<user_data, nsess, updates, FILMS_TO_SHOW>>

----------------------------------------------------------------------------
(* confirm_yes(callback, callback_data, state), lines 579-607 *)

\* lines 600-606 up to the next suspension: the tentative view named by the
\* FSM data is deleted; without one, current_index is set at once
confirm_yes_choose(r, ss, ud) ==
    show_current_film(r, [ss EXCEPT ![r.data].current_index = r.arg], ud)

\* lines 586-599: pressed on a displayed tentative view, which carries the
\* index chosen when it was rendered
confirm_yes(t) ==
    /\ CanStart(t)
    /\ \E m \in MsgIds :
          /\ chat[m].kind = "confirm"
          /\ LET r == [Idle EXCEPT !.h = "confirm_yes", !.arg = chat[m].idx,
                                   !.cm = fsm.confirm_msg_id, !.data = user_data]
             IN  IF user_data = None
                 THEN /\ Settle(t, [r EXCEPT !.pc = "cy_stale"])
                      /\ UNCHANGED <<sessions, fsm>>
                 ELSE IF sessions[user_data].list_msg_id # None
                 THEN /\ Settle(t, [r EXCEPT !.pc = "cy_del_list",
                                             !.m = sessions[user_data].list_msg_id])
                      /\ UNCHANGED <<sessions, fsm>>
                 ELSE IF r.cm # None
                 THEN /\ Settle(t, [r EXCEPT !.pc = "cy_del_confirm"])
                      /\ UNCHANGED <<sessions, fsm>>
                 ELSE /\ sessions' = [sessions EXCEPT ![user_data].current_index = r.arg]
                      /\ fsm' = EmptyFsm
                      /\ Settle(t, confirm_yes_choose(r, sessions, user_data))
    /\ updates' = updates + 1
    /\ UNCHANGED <<user_data, nsess, chat, nextId, faults, FILMS_TO_SHOW>>

\* lines 589-591: the stale-session alert was answered, the state is cleared
confirm_yes_stale(t) ==
    /\ At(t, "confirm_yes", "cy_stale")
    /\ fsm' = EmptyFsm
    /\ Settle(t, [tasks[t] EXCEPT !.pc = "stale"])
    /\ UNCHANGED <<user_data, sessions, nsess, chat, nextId, updates, faults, FILMS_TO_SHOW>>

\* lines 597-601: safe_delete of the list view returned
confirm_yes_list_deleted(t) ==
    /\ At(t, "confirm_yes", "cy_del_list")
    /\ LET r == tasks[t]
           ss == [sessions EXCEPT ![r.data].list_msg_id = None]
       IN  /\ safe_delete(r.m)
           /\ IF r.cm # None
              THEN /\ sessions' = ss
                   /\ fsm' = fsm
                   /\ Settle(t, [r EXCEPT !.pc = "cy_del_confirm", !.m = None])
              ELSE /\ sessions' = [ss EXCEPT ![r.data].current_index = r.arg]
                   /\ fsm' = EmptyFsm
                   /\ Settle(t, confirm_yes_choose([r EXCEPT !.m = None], ss, user_data))
    /\ UNCHANGED <<user_data, nsess, nextId, updates, FILMS_TO_SHOW>>

\* lines 601-606: safe_delete of the tentative view returned
confirm_yes_confirm_deleted(t) ==
    /\ At(t, "confirm_yes", "cy_del_confirm")
    /\ LET r == tasks[t]
       IN  /\ safe_delete(r.cm)
           /\ sessions' = [sessions EXCEPT ![r.data].current_index = r.arg]
           /\ fsm' = EmptyFsm
           /\ Settle(t, confirm_yes_choose(r, sessions, user_data))
    /\ UNCHANGED <<user_data, nsess, nextId, updates, FILMS_TO_SHOW>>

----------------------------------------------------------------------------
(* confirm_no(callback, state), lines 610-619 *)

\* lines 615-616: pressed on a displayed tentative view
confirm_no(t) ==
    /\ CanStart(t)
    /\ \E m \in MsgIds : chat[m].kind = "confirm"
    /\ Settle(t, [Idle EXCEPT !.h = "confirm_no", !.cm = fsm.confirm_msg_id,
                              !.pc = IF fsm.confirm_msg_id # None THEN "cn_del" ELSE "cn_answer"])
    /\ updates' = updates + 1
    /\ UNCHANGED <<user_data, sessions, nsess, fsm, chat, nextId, faults, FILMS_TO_SHOW>>

\* line 616: safe_delete of the tentative view returned
confirm_no_deleted(t) ==
    /\ At(t, "confirm_no", "cn_del")
    /\ safe_delete(tasks[t].cm)
    /\ Settle(t, [tasks[t] EXCEPT !.pc = "cn_answer"])
    /\ UNCHANGED <<user_data, sessions, nsess, fsm, nextId, updates, FILMS_TO_SHOW>>

\* lines 618-619: callback.answer() returned, the state is set
confirm_no_answered(t) ==
    /\ At(t, "confirm_no", "cn_answer")
    /\ fsm' = [fsm EXCEPT !.state = "waiting_for_number"]
    /\ Settle(t, [tasks[t] EXCEPT !.pc = "ok"])
    /\ UNCHANGED <<user_data, sessions, nsess, chat, nextId, updates, faults, FILMS_TO_SHOW>>

----------------------------------------------------------------------------
(* handle_number_choice(message, state), lines 622-674 *)

\* line 638: the guard on the typed number, num = int(message.text) - 1
InRange(num, n) == 0 <= num /\ num < n

\* lines 627-640: digits arrived in state waiting_for_number
handle_number_choice(t) ==
    /\ CanStart(t)
    /\ StateFilter("waiting_for_number")
    /\ \E typed \in TypedNumbers :
          LET r == [Idle EXCEPT !.h = "handle_number_choice", !.arg = typed - 1]
          IN  IF ~fsm.user_id \/ user_data = None
              THEN Settle(t, [r EXCEPT !.pc = "nn_stale"])
              ELSE IF InRange(typed - 1, sessions[user_data].n)
              THEN Settle(t, [r EXCEPT !.pc = "nn_send", !.data = user_data])
              ELSE Settle(t, [r EXCEPT !.pc = "out_of_range", !.data = user_data])
    /\ updates' = updates + 1
    /\ UNCHANGED <<user_data, sessions, nsess, fsm, chat, nextId, faults, FILMS_TO_SHOW>>

\* lines 630-632: the stale-search notice was sent, the state is cleared
handle_number_choice_stale(t) ==
    /\ At(t, "handle_number_choice", "nn_stale")
    /\ fsm' = EmptyFsm
    /\ Settle(t, [tasks[t] EXCEPT !.pc = "stale"])
    /\ UNCHANGED <<user_data, sessions, nsess, chat, nextId, updates, faults, FILMS_TO_SHOW>>

\* lines 659-668: the tentative view was sent (or the send raised)
handle_number_choice_sent(t) ==
    /\ At(t, "handle_number_choice", "nn_send")
    /\ nextId <= MaxMsgs
    /\ LET r == tasks[t]
       IN  \E ok \in send_message :
              /\ Charge(TRUE, ok)
              /\ IF ok
                 THEN /\ chat' = [chat EXCEPT ![nextId] = ConfirmView(r.data, r.arg)]
                      /\ nextId' = nextId + 1
                      /\ fsm' = [fsm EXCEPT !.state = "confirming_choice",
                                            !.confirm_msg_id = nextId,
                                            !.chosen_index = r.arg]
                      /\ Settle(t, [r EXCEPT !.pc = "ok"])
                 ELSE /\ UNCHANGED <<chat, nextId, fsm>>
                      /\ Settle(t, [r EXCEPT !.pc = "TransportError"])
    /\ UNCHANGED <<user_data, sessions, nsess, updates, FILMS_TO_SHOW>>

\* lines 677-679: other text arrived in state waiting_for_number
handle_invalid(t) ==
    /\ CanStart(t)
    /\ StateFilter("waiting_for_number")
    /\ Settle(t, [Idle EXCEPT !.h = "handle_invalid", !.pc = "invalid"])
    /\ updates' = updates + 1
    /\ UNCHANGED <<user_data, sessions, nsess, fsm, chat, nextId, faults, FILMS_TO_SHOW>>

----------------------------------------------------------------------------
(* Commands and close_list(user_id, chat_id), lines 344-463 *)

\* lines 345-348: close_list up to its suspension
close_list(t, command) ==
    /\ CanStart(t)
    /\ LET r == [Idle EXCEPT !.h = command, !.data = user_data]
       IN  IF user_data # None /\ sessions[user_data].list_msg_id # None
           THEN Settle(t, [r EXCEPT !.pc = "cl_del", !.m = sessions[user_data].list_msg_id])
           ELSE Settle(t, [r EXCEPT !.pc = "ok"])
    /\ updates' = updates + 1
    /\ UNCHANGED <<user_data, sessions, nsess, fsm, chat, nextId, faults, FILMS_TO_SHOW>>

\* /start, and /help, /history, /stats, which treat the session alike
cmd_start(t) == close_list(t, "cmd_start")

\* /clear_data: close_list, then the history and stats rows are deleted
cmd_clear_data(t) == close_list(t, "cmd_clear_data")

\* lines 348-351: delete_message returned or raised
close_list_deleted(t) ==
    /\ tasks[t].pc = "cl_del"
    /\ LET r == tasks[t]
       IN  /\ safe_delete(r.m)
           /\ sessions' = [sessions EXCEPT ![r.data].list_msg_id = None]
           /\ Settle(t, [r EXCEPT !.pc = "ok"])
    /\ UNCHANGED <<user_data, nsess, fsm, nextId, updates, FILMS_TO_SHOW>>

----------------------------------------------------------------------------
(* The dispatcher: every update is handled in a task of its own *)

Next ==
    \E t \in Tasks :
       \/ handle_search(t)
       \/ handle_search_list_deleted(t)
       \/ handle_search_frozen(t)
       \/ handle_search_old_deleted(t)
       \/ handle_search_results(t)
       \/ show_current_film_ratings(t)
       \/ show_current_film_keyboard(t)
       \/ show_current_film_edit(t)
       \/ show_current_film_delete(t)
       \/ show_current_film_send(t)
       \/ handle_navigation_move(t)
       \/ handle_navigation_list(t)
       \/ handle_navigation_close(t)
       \/ handle_navigation_close_answered(t)
       \/ handle_navigation_close_deleted(t)
       \/ show_list_variants(t)
       \/ show_list_variants_deleted(t)
       \/ show_list_variants_sent(t)
       \/ confirm_yes(t)
       \/ confirm_yes_stale(t)
       \/ confirm_yes_list_deleted(t)
       \/ confirm_yes_confirm_deleted(t)
       \/ confirm_no(t)
       \/ confirm_no_deleted(t)
       \/ confirm_no_answered(t)
       \/ handle_number_choice(t)
       \/ handle_number_choice_stale(t)
       \/ handle_number_choice_sent(t)
       \/ handle_invalid(t)
       \/ cmd_start(t)
       \/ cmd_clear_data(t)
       \/ close_list_deleted(t)

\* the transport fails only where the chat makes it fail
InitReliable == Init /\ faults = 0 /\ FILMS_TO_SHOW = DefaultFilmsToShow

Spec == InitReliable /\ [][Next]_vars

\* the transport may also fail on its own
InitFaults == Init /\ faults = MaxFaults /\ FILMS_TO_SHOW = DefaultFilmsToShow

SpecFaults == InitFaults /\ [][Next]_vars

\* one handler at a time: an update is dispatched only when no task runs
NextSerial == Next /\ (updates' # updates => Busy = {})

SpecSerial == InitReliable /\ [][NextSerial]_vars

\* the list view under every configured length: one search, then the list
\* is opened and closed
InitList == Init /\ faults = 0

NextList ==
    \E t \in Tasks :
       \/ handle_search(t) /\ user_data = None /\ Busy = {}
       \/ handle_search_results(t)
       \/ show_current_film_ratings(t)
       \/ show_current_film_keyboard(t)
       \/ show_current_film_send(t)
       \/ handle_navigation_list(t)
       \/ handle_navigation_close(t)
       \/ handle_navigation_close_answered(t)
       \/ handle_navigation_close_deleted(t)
       \/ show_list_variants(t)
       \/ show_list_variants_deleted(t)
       \/ show_list_variants_sent(t)

SpecList == InitList /\ [][NextList]_vars

TypeOK ==
    /\ user_data \in {None} \cup SessIds
    /\ faults \in 0..MaxFaults
    /\ FILMS_TO_SHOW \in Caps
    /\ nsess \in 0..MaxSessions
    /\ nextId \in 1..(MaxMsgs + 1)
    /\ updates \in 0..MaxUpdates
    /\ fsm.state \in {"None", "waiting_for_number", "confirming_choice"}
    /\ \A t \in Tasks : tasks[t].pc \notin Final

----------------------------------------------------------------------------
(* The session of the user, as the specification names its parts *)

Active == user_data # None

records == sessions[user_data].n

currentIndex == sessions[user_data].current_index

listViewRef == sessions[user_data].list_msg_id

primaryViewRef == sessions[user_data].msg_id

navState ==
    CASE fsm.state = "None" -> "Browsing"
      [] fsm.state = "waiting_for_number" -> "AwaitingNumber"
      [] fsm.state = "confirming_choice" -> "ConfirmingChoice"

----------------------------------------------------------------------------
(* Claims *)

\* C1: for a user with an active session, 0 <= currentIndex < len(records)
\* holds in every reachable state
C1_IndexInBounds == Active => (0 <= currentIndex /\ currentIndex < records)

\* C2: prev at currentIndex = 0 and next at currentIndex = len(records)-1
\* are no-ops: currentIndex and navState are the same after as before
C2_BoundaryMovesAreNoOps ==
    [][\A t \in Tasks :
          (/\ Active
           /\ \/ currentIndex = 0 /\ Move(t, "prev")
              \/ currentIndex = records - 1 /\ Move(t, "next"))
          => (sessions'[user_data].current_index = currentIndex /\ fsm' = fsm)]_vars

\* a handler at one of these steps has read the session and is suspended
\* at a fetch or a transport call after which it writes the session
MidUpdate == {"sf_fetch", "sf_del", "cy_del_list", "cy_del_confirm", "nc_del", "cl_del"}

\* C3: actions of the same user are serialized: no handler writes the
\* session table, a session or the FSM context while another handler is
\* suspended between its read and its write of the session
C3_Serialized ==
    [][\A t, u \in Tasks :
          (/\ t # u
           /\ tasks'[t] # tasks[t]
           /\ <<user_data, sessions, fsm>>' # <<user_data, sessions, fsm>>)
          => tasks[u].pc \notin MidUpdate]_vars

\* C4: when a search that started with an active session inserts its new
\* session, the old session is out of the store and none of its views
\* carries prev/next/list controls
C4_OldControlsDiscarded ==
    [][\A t \in Tasks :
          (handle_search_results(t) /\ tasks[t].old # None /\ nsess' = nsess + 1)
          => (/\ user_data # tasks[t].old
              /\ \A m \in MsgIds : ~(chat[m].kind = "film" /\ chat[m].sess = tasks[t].old))]_vars

\* C5: listViewRef is non-null only while navState is AwaitingNumber or
\* ConfirmingChoice (ListView is passed through without suspension)
C5_ListOnlyWhileChoosing ==
    (Active /\ listViewRef # None) => navState \in {"AwaitingNumber", "ConfirmingChoice"}

\* the handler dispatched to task t answers with the stale-session notice
StaleNotice(t) ==
    \/ tasks'[t].pc \in {"cy_stale", "nn_stale"}
    \/ tasks'[t].pc = "idle" /\ last'.how = "stale"

\* C6: a navigation, numeric-selection, confirm or reject action that
\* arrives with no active session gives the stale-session notice, and the
\* handler changes no session and sets no AwaitingNumber / ConfirmingChoice
C6_StaleSessionReported ==
    [][\A t \in Tasks :
          /\ (/\ ~Active
              /\ \/ handle_navigation_move(t)
                 \/ handle_navigation_list(t)
                 \/ handle_navigation_close(t)
                 \/ confirm_yes(t)
                 \/ confirm_no(t)
                 \/ handle_number_choice(t))
             => StaleNotice(t)
          /\ (confirm_yes_stale(t) \/ handle_number_choice_stale(t))
             => (fsm'.state = "None" /\ user_data' = user_data /\ sessions' = sessions)]_vars

OutOfRange(t) ==
    /\ handle_number_choice(t)
    /\ \/ tasks'[t].pc = "idle" /\ last'.how = "out_of_range"
       \/ tasks'[t].pc = "nn_stale" /\ ~InRange(tasks'[t].arg, records)

\* C8: in AwaitingNumber, select(n) with n outside 1..len(records) leaves
\* navState, currentIndex, listViewRef and records as they are and creates
\* no tentative view: the handler ends on the range notice, with no step
\* left that clears the FSM state
C8_OutOfRangeSelectIsNoOp ==
    [][\A t \in Tasks :
          (Active /\ navState = "AwaitingNumber" /\ OutOfRange(t))
          => (/\ tasks'[t].pc = "idle"
              /\ navState' = "AwaitingNumber"
              /\ user_data' = user_data
              /\ sessions' = sessions
              /\ chat' = chat)]_vars

\* a displayed single-record view carries the open-list control exactly
\* when its session has more than 3 records
ListControlIffLong ==
    \A m \in MsgIds :
       chat[m].kind = "film" => (chat[m].kb.list <=> sessions[chat[m].sess].n > 3)

\* the list view is rendered, and AwaitingNumber entered, only for a
\* session with more than 3 records
OpenListOnlyIfLong ==
    [][\A t \in Tasks :
          (show_list_variants_sent(t) /\ nextId' = nextId + 1)
          => sessions[tasks[t].data].n > 3]_vars

\* C9: the open-list transition occurs only for sessions with more than 3
\* records, and the open-list control is in the single-record view iff the
\* session has more than 3 records
C9_OpenListOnlyIfLong == []ListControlIffLong /\ OpenListOnlyIfLong

\* C10: a session in the store has a non-empty records sequence; a search
\* whose extraction is empty creates none
C10_RecordsNonEmpty == Active => records > 0

\* a search ended on an empty extraction after an earlier search had
\* created a session, and the store holds no session
C10_Witness == last = [h |-> "handle_search", how |-> "no_results"] /\ ~Active /\ nsess > 0

\* the step with which the handler of task t ends
Ends(t) == tasks[t].pc # tasks'[t].pc /\ tasks'[t].pc = "idle"

\* C11: an active session stops being active only by the replacing search
\* of the same user (or the clear action), and a search that started with
\* an active session and found no results leaves the user with a session
C11_SessionKeptUntilReplaced ==
    [][\A t \in Tasks :
          /\ (Active /\ ~Active' /\ tasks'[t] # tasks[t])
             => tasks'[t].h \in {"handle_search", "cmd_clear_data"}
          /\ (handle_search_results(t) /\ tasks[t].old # None
              /\ Ends(t) /\ last'.how = "no_results")
             => Active']_vars

\* the step with which the handler of /clear_data in task t completes
ClearCompletes(t) ==
    \/ cmd_clear_data(t) /\ tasks'[t].pc = "idle"
    \/ close_list_deleted(t) /\ tasks[t].h = "cmd_clear_data"

\* C12: when the clear action completes, the user has no active session
\* and no primary or list view of a session is left displayed
C12_ClearRemovesSession ==
    [][\A t \in Tasks :
          ClearCompletes(t)
          => (/\ ~Active'
              /\ \A m \in MsgIds : chat'[m].kind \notin {"film", "list"})]_vars

\* the detail-page fetch of one record is in flight in two handlers
FetchedTwice ==
    \E t, u \in Tasks :
       /\ t # u
       /\ tasks[t].pc = "sf_fetch" /\ tasks[u].pc = "sf_fetch"
       /\ tasks[t].data = tasks[u].data /\ tasks[t].ri = tasks[u].ri

\* the ratings of a record are stored only on a record that has none
PopulatedOnce ==
    [][\A t \in Tasks :
          show_current_film_ratings(t) => tasks[t].ri \notin sessions[tasks[t].data].kp]_vars

\* C13: for every record the detail-page fetch is issued at most once and
\* externalRatings is populated at most once, whatever displays overlap
C13_RatingsFetchedOnce == [](~FetchedTwice) /\ PopulatedOnce

\* C14: whenever navState is AwaitingNumber the list view is there:
\* listViewRef of the user's session is non-null
C14_AwaitingNumberShowsList ==
    (Active /\ navState = "AwaitingNumber") => listViewRef # None

\* C16: a displayed list view enumerates exactly min(len(records), CAP)
\* entries, numbered 1..min(len(records), CAP) in catalog order, and has a
\* remainder line iff len(records) > CAP, which states len(records) - CAP
C16_ListCapped ==
    \A m \in MsgIds :
       chat[m].kind = "list" =>
          LET n == sessions[chat[m].sess].n
              shown == IF n < FILMS_TO_SHOW THEN n ELSE FILMS_TO_SHOW
              text == chat[m].text
          IN  /\ Len(text.lines) = shown
              /\ \A i \in 1..shown : text.lines[i] = [num |-> i, rec |-> i - 1]
              /\ (text.more # None) <=> (n > FILMS_TO_SHOW)
              /\ (n > FILMS_TO_SHOW) => text.more = n - FILMS_TO_SHOW

\* a list view with numbered entries and a remainder line is displayed
C16_Witness ==
    \E m \in MsgIds :
       /\ chat[m].kind = "list"
       /\ Len(chat[m].text.lines) > 1
       /\ chat[m].text.more # None
       /\ sessions[chat[m].sess].n > FILMS_TO_SHOW

\* the steps of the end-to-end trace, for a session of 5 records, in task t

\* the search creates the session at currentIndex = 0 in Browsing
TraceSearch(t) ==
    (handle_search_results(t) /\ nsess' = nsess + 1 /\ sessions'[nsess'].n = 5)
    => (/\ user_data' = nsess'
        /\ sessions'[user_data'].current_index = 0
        /\ navState' = "Browsing")

\* next moves on by one up to currentIndex = 4; a further next changes nothing
TraceNext(t) ==
    (Active /\ records = 5 /\ Move(t, "next"))
    => (/\ sessions'[user_data].current_index =
              IF currentIndex < 4 THEN currentIndex + 1 ELSE currentIndex
        /\ currentIndex = 4 => navState' = navState)

\* open-list renders 5 entries and no remainder line, and enters AwaitingNumber
TraceOpenList(t) ==
    (show_list_variants_sent(t) /\ nextId' = nextId + 1 /\ sessions[tasks[t].data].n = 5)
    => (/\ Len(chat'[nextId].text.lines) = 5
        /\ chat'[nextId].text.more = None
        /\ navState' = "AwaitingNumber")

\* select(3) enters ConfirmingChoice on index 2, currentIndex as it was
TraceSelect(t) ==
    (/\ Active /\ records = 5
     /\ handle_number_choice_sent(t) /\ nextId' = nextId + 1 /\ tasks[t].arg = 2)
    => (/\ navState' = "ConfirmingChoice"
        /\ chat'[nextId] = ConfirmView(user_data, 2)
        /\ sessions'[user_data].current_index = currentIndex)

\* reject returns to AwaitingNumber with the list still present
TraceReject(t) ==
    (/\ Active /\ records = 5 /\ navState = "ConfirmingChoice" /\ listViewRef # None
     /\ confirm_no_answered(t))
    => (/\ navState' = "AwaitingNumber"
        /\ user_data' = user_data
        /\ sessions'[user_data].list_msg_id = listViewRef
        /\ chat'[listViewRef].kind = "list")

\* select(2) then confirm ends with currentIndex = 1 in Browsing
TraceConfirm(t) ==
    (/\ tasks[t].h = "confirm_yes" /\ tasks[t].arg = 1
     /\ Ends(t) /\ last'.how = "ok"
     /\ user_data' # None /\ sessions'[user_data'].n = 5)
    => (/\ sessions'[user_data'].current_index = 1
        /\ navState' = "Browsing")

\* C15: the end-to-end trace on a search returning 5 records: session at
\* currentIndex = 0 in Browsing; next x4 gives 4; a further next changes
\* nothing; open-list renders 5 entries without remainder and enters
\* AwaitingNumber; select(3) enters ConfirmingChoice on index 2; reject
\* returns to AwaitingNumber with the list present; select(2) then confirm
\* ends with currentIndex = 1 in Browsing
C15_EndToEnd ==
    [][\A t \in Tasks :
          /\ TraceSearch(t)
          /\ TraceNext(t)
          /\ TraceOpenList(t)
          /\ TraceSelect(t)
          /\ TraceReject(t)
          /\ TraceConfirm(t)]_vars

\* the position of task t in show_current_film changes from pc to one of to
Goes(t, pc, to) == tasks[t].pc = pc /\ tasks'[t].pc # pc /\ tasks'[t].pc \in to

\* the render of task t returns normally
RenderCompletes(t) == Goes(t, "sf_edit", {"idle"}) \/ (Goes(t, "sf_send", {"idle"}) /\ last'.how = "ok")

\* the message primaryViewRef names shows the current record of the session
ShowsCurrent ==
    /\ Active
    /\ primaryViewRef # None
    /\ chat[primaryViewRef].kind = "film"
    /\ chat[primaryViewRef].sess = user_data
    /\ IndexOK(records, currentIndex)
    /\ chat[primaryViewRef].idx = ListIndex(records, currentIndex)

\* C17: a render attempts the in-place update first whenever the primary view
\* handle is non-null; delete-then-recreate happens only after that update
\* failed, or when no primary view exists; a failed delete never aborts the
\* render; and when the render completes primaryViewRef is the handle of the
\* message that shows the current record
C17_RenderEditsFirst ==
    [][\A t \in Tasks :
          /\ Goes(t, "sf_db", {"sf_edit", "sf_send"})
             => (tasks'[t].pc = "sf_edit" <=> sessions[tasks[t].data].msg_id # None)
          /\ Goes(t, "sf_db", {"sf_del"}) => FALSE
          /\ Goes(t, "sf_edit", {"sf_del"}) => chat' = chat
          /\ Goes(t, "sf_edit", {"sf_send"}) => FALSE
          /\ tasks[t].pc = "sf_del" /\ tasks'[t] # tasks[t] => tasks'[t].pc = "sf_send"
          /\ RenderCompletes(t) => ShowsCurrent']_vars

\* the outcomes of a handler that raised out of its coroutine
Unhandled == {"KeyError", "IndexError", "TransportError"}

\* C18: no handler ends in an unhandled failure: none ends with an
\* out-of-range record access, a lookup or deletion of a missing session
\* entry, or a propagated transport failure
C18_NoUnhandledFailure == last.how \notin Unhandled

\* task t takes a step of confirm_yes or of confirm_no
ConfirmOrReject(t) ==
    \/ confirm_yes(t)
    \/ confirm_no(t)
    \/ tasks[t].h \in {"confirm_yes", "confirm_no"} /\ tasks'[t] # tasks[t]

\* C19: confirm and reject take effect only in ConfirmingChoice: in a session
\* whose navState is Browsing or AwaitingNumber they change neither
\* currentIndex nor navState
C19_ConfirmOnlyWhenConfirming ==
    [][\A t \in Tasks :
          (Active /\ navState # "ConfirmingChoice" /\ ConfirmOrReject(t))
          => (/\ navState' = navState
              /\ user_data' = user_data
              /\ sessions'[user_data].current_index = currentIndex)]_vars

\* task t takes a step of a handler of text that is not a number: other
\* text (handle_invalid) or a bot command
OtherText(t) ==
    \/ handle_invalid(t)
    \/ cmd_start(t)
    \/ cmd_clear_data(t)
    \/ close_list_deleted(t)

\* C20: in AwaitingNumber, text that is not a non-negative decimal number,
\* bot commands included, leaves navState = AwaitingNumber and the session
\* unchanged: currentIndex, records, primaryViewRef and listViewRef keep
\* their values
C20_OtherTextIsNoOp ==
    [][\A t \in Tasks :
          (Active /\ navState = "AwaitingNumber" /\ OtherText(t))
          => (/\ navState' = "AwaitingNumber"
              /\ user_data' = user_data
              /\ sessions'[user_data].current_index = currentIndex
              /\ sessions'[user_data].n = records
              /\ sessions'[user_data].msg_id = primaryViewRef
              /\ sessions'[user_data].list_msg_id = listViewRef)]_vars

\* task t takes a step of a handler that text can reach while navState is
\* AwaitingNumber or ConfirmingChoice: a number, other text, a bot command
FilteredText(t) ==
    \/ handle_number_choice(t)
    \/ handle_invalid(t)
    \/ cmd_start(t)
    \/ cmd_clear_data(t)
    \/ /\ tasks[t].h \in {"handle_number_choice", "cmd_start", "cmd_clear_data"}
       /\ tasks'[t] # tasks[t]

LiveControls ==
    {m \in MsgIds : chat[m].kind = "film"
                    /\ (chat[m].kb.prev \/ chat[m].kb.next \/ chat[m].kb.list)}

\* the displayed list views
ListViews == {m \in MsgIds : chat[m].kind = "list"}

\* C22: in every reachable state at most one displayed message carries
\* prev/next/list controls and at most one list view is displayed, and these
\* are the messages primaryViewRef and listViewRef of the active session
\* name: no view with live controls is left unreferenced
C22_NoOrphanedViews ==
    /\ Cardinality(LiveControls) <= 1
    /\ Cardinality(ListViews) <= 1
    /\ \A m \in LiveControls : Active /\ primaryViewRef = m
    /\ \A m \in ListViews : Active /\ listViewRef = m

====
